---- MODULE Spec2Model ----
(***************************************************************************)
(* A model of SimulationSolarHeater.py: the Panel / SolarHeater heat       *)
(* balance, the Tank mixing and release operations, the Pumping transfers  *)
(* and the Controller's per-second simulation loop.                        *)
(*                                                                         *)
(* Numbers.  Volumes, the pumping rate, the incident energy and the loop   *)
(* counters are integers, as annotated in the source.  Temperatures and    *)
(* masses are the source's floats: IEEE 754 doubles.  The model computes   *)
(* on doubles, bit for bit: every arithmetic expression of the source is   *)
(* evaluated in the source's order of operations, and each operation       *)
(* rounds its exact result to the nearest double, as the interpreter's     *)
(* does.  An int operand of a float operation is converted first, as       *)
(* Python converts it.                                                     *)
(*                                                                         *)
(* Exceptions.  A raised exception is recorded in the variable error (for  *)
(* a call made on a component) or ends the Controller's run in             *)
(* pc = "crashed".                                                         *)
(***************************************************************************)
EXTENDS Integers, Sequences, FiniteSets

(***************************************************************************)
(* Program constants.                                                      *)
(***************************************************************************)
\* Fluid.Density, kg/m3
Density == 980
\* SolarHeater.MAX_HEAT
MAX_HEAT == 95
\* the factor of simulateSystemForHours: hours * 3600
SecondsPerHour == 3600
\* the "unset" value SolarHeater.__init__ stores in incidentEnergy
UnsetEnergy == -1
\* the incident energy componentFactory sets
DefaultEnergy == 1224
\* Tank(capacity=500, waterVol=60, waterTemp=15) of componentFactory
DefaultCapacity == 500
DefaultWaterVol == 60
DefaultWaterTemp == 15
\* pump.setPumpingRateLitersPerSec(1) of componentFactory
DefaultRate == 1
\* SolarHeater(numberOfPanels=1) of componentFactory
DefaultPanels == 1
\* main(): controller.simulateSystemForHours(1)
MainHours == 1

(***************************************************************************)
(* Bounds of the model.                                                    *)
(***************************************************************************)
\* largest argument of simulateSystemForSeconds
MaxSeconds == 3
\* largest tank capacity and initial volume of the varied configurations
MaxVol == 3
\* largest pumping rate
MaxRate == 2
\* largest volume argument of a direct addWater / releaseWaterVolume call
MaxArg == 2
\* number of direct Tank calls in one run
MaxOps == 3
\* number of SolarHeater constructions in one process
MaxHeaters == 2
\* largest numberOfPanels of a construction
MaxPanels == 2
\* number of calls made on the constructed SolarHeaters
MaxCalls == 3

(***************************************************************************)
(* IEEE 754 binary64, the float of the source.  A double is                *)
(* <<s, hi, lo, e>>: its value is s * (hi * 2^27 + lo) * 2^e, with s the   *)
(* sign (1 or -1), hi * 2^27 + lo the 53-bit significand, 2^52 <= hi *     *)
(* 2^27 + lo < 2^53, kept in two limbs of 26 and 27 bits, and e the        *)
(* exponent of its last place; zero is <<0, 0, 0, 0>>.  Each operation     *)
(* computes the exact result to two bits more than the significand, with   *)
(* a sticky flag for what lies below, and rounds it to nearest, ties to    *)
(* even, as the hardware does.  The exponent is not bounded: the values    *)
(* of the model stay far from overflow and from the subnormal range.       *)
(***************************************************************************)
Limb == 2^27

\* the least hi of a 53-bit significand
TopBit == 2^25

\* the radix of the digits a significand is split into to be multiplied
Digit == 2^14

FZero == <<0, 0, 0, 0>>

Abs(x) == IF x < 0 THEN -x ELSE x

\* the significand of x shifted up by k bits, 0 < k < 27
ShiftUp(x, k) ==
    <<x[1], x[2] * 2^k + x[3] \div 2^(27 - k), (x[3] % 2^(27 - k)) * 2^k, x[4] - k>>

RECURSIVE LeftNorm(_)
\* an exact significand of fewer than 53 bits, shifted up to 53
LeftNorm(x) ==
    IF x[2] >= TopBit THEN x
    ELSE IF x[2] < 2^13 THEN LeftNorm(ShiftUp(x, 13))
    ELSE IF x[2] < 2^20 THEN LeftNorm(ShiftUp(x, 6))
    ELSE IF x[2] < 2^23 THEN LeftNorm(ShiftUp(x, 3))
    ELSE LeftNorm(ShiftUp(x, 1))

\* the double nearest to s * (hi * 2^27 + lo + f) * 2^e, where hi * 2^27 + lo has
\* at most 57 bits and 0 < f < 1 if sticky, f = 0 if not: the bits beyond the
\* 53rd are dropped, rounding to nearest, a tie to the even significand
Pack(s, hi, lo, sticky, e) ==
    IF hi = 0 /\ lo = 0 THEN FZero
    ELSE IF hi < 2 * TopBit THEN LeftNorm(<<s, hi, lo, e>>)
    ELSE
      LET k == IF hi < 4 * TopBit THEN 1
               ELSE IF hi < 8 * TopBit THEN 2
               ELSE IF hi < 16 * TopBit THEN 3
               ELSE 4
          p == 2^k
          dropped == lo % p
          half == p \div 2
          lo1 == lo \div p + (hi % p) * (Limb \div p)
          hi1 == hi \div p
          up == \/ dropped > half
                \/ dropped = half /\ (sticky \/ lo1 % 2 = 1)
          lo2 == IF up THEN lo1 + 1 ELSE lo1
          hi2 == IF lo2 = Limb THEN hi1 + 1 ELSE hi1
      IN  IF hi2 = 2 * TopBit THEN <<s, TopBit, 0, e + k + 1>>
          ELSE <<s, hi2, lo2 % Limb, e + k>>

\* float(i) of an int i, |i| < 2^31
FInt(i) == Pack(IF i < 0 THEN -1 ELSE 1, Abs(i) \div Limb, Abs(i) % Limb, FALSE, 0)

\* x * y: the 106-bit product of the significands, from digits of 14 bits
FMul(x, y) ==
    IF x[1] = 0 \/ y[1] = 0 THEN FZero
    ELSE
      LET a0 == x[3] % Digit
          a1 == x[3] \div Digit + (x[2] % 2) * (Digit \div 2)
          a2 == (x[2] \div 2) % Digit
          a3 == x[2] \div (2 * Digit)
          b0 == y[3] % Digit
          b1 == y[3] \div Digit + (y[2] % 2) * (Digit \div 2)
          b2 == (y[2] \div 2) % Digit
          b3 == y[2] \div (2 * Digit)
          c0 == a0 * b0
          c1 == a0 * b1 + a1 * b0 + c0 \div Digit
          c2 == a0 * b2 + a1 * b1 + a2 * b0 + c1 \div Digit
          c3 == a0 * b3 + a1 * b2 + a2 * b1 + a3 * b0 + c2 \div Digit
          c4 == a1 * b3 + a2 * b2 + a3 * b1 + c3 \div Digit
          c5 == a2 * b3 + a3 * b2 + c4 \div Digit
          c6 == a3 * b3 + c5 \div Digit
          p3 == c3 % Digit
          p4 == c4 % Digit
          p5 == c5 % Digit
          p6 == c6 % Digit
          p7 == c6 \div Digit
          \* the product without its 51 low bits, and whether any of those is set
          sticky == c0 % Digit # 0 \/ c1 % Digit # 0 \/ c2 % Digit # 0 \/ p3 % 2^9 # 0
          lo == p3 \div 2^9 + p4 * 2^5 + (p5 % 2^8) * 2^19
          hi == p5 \div 2^8 + p6 * 2^6 + p7 * 2^20
      IN  Pack(x[1] * y[1], hi, lo, sticky, x[4] + y[4] + 51)

\* the digits of 14 bits of a significand hi * 2^27 + lo, the highest first
Digits(hi, lo) ==
    <<hi \div (2 * Digit), (hi \div 2) % Digit,
      lo \div Digit + (hi % 2) * (Digit \div 2), lo % Digit>>

\* An estimate of the next quotient digit, in the long division by the digits d
\* of a 53-bit divisor, from the leading 17 bits of d and of the digits r of a
\* remainder less than the divisor: the digit, or one less
DivEstimate(r, d) ==
    ((r[1] * 2^6 + r[2] \div 2^8) * Digit) \div (d[1] * 2^6 + d[2] \div 2^8 + 1)

\* the digits of r * 2^14 - q * d, for a q that leaves them non-negative
DivTake(r, d, q) ==
    LET u0 == 0 - q * d[4]
        u1 == r[4] - q * d[3] + u0 \div Digit
        u2 == r[3] - q * d[2] + u1 \div Digit
        u3 == r[1] * Digit + r[2] - q * d[1] + u2 \div Digit
    IN  <<u3, u2 % Digit, u1 % Digit, u0 % Digit>>

\* the estimate q corrected: <<t - d, q + 1>> if the digits t still hold the
\* divisor, <<t, q>> if not
DivCorrect(t, d, q) ==
    LET v0 == t[4] - d[4]
        v1 == t[3] - d[3] + v0 \div Digit
        v2 == t[2] - d[2] + v1 \div Digit
        v3 == t[1] - d[1] + v2 \div Digit
    IN  IF v3 >= 0 THEN <<<<v3, v2 % Digit, v1 % Digit, v0 % Digit>>, q + 1>>
        ELSE <<t, q>>

\* the step for the quotient digit estimated as q
DivStepFrom(r, d, q) == DivCorrect(DivTake(r, d, q), d, q)

\* One step of long division by the digits d of a 53-bit divisor, on the digits
\* r of a remainder less than it: <<r', q>> with r * 2^14 = q * d + r' and r' < d
DivStep(r, d) == DivStepFrom(r, d, DivEstimate(r, d))

\* x / y for x # 0 and a y whose significand is d * 2^40, d of 13 bits, as that of
\* float(n) is for every int 0 < n < 2^13: short division of the significand of
\* x, taken as digits of 14 bits, to 14 fractional bits
ShortDiv(x, y) ==
    LET d == y[2] \div 2^13
        t3 == (x[2] \div (2 * Digit)) * Digit + ((x[2] \div 2) % Digit)
        t2 == (t3 % d) * Digit + x[3] \div Digit + (x[2] % 2) * (Digit \div 2)
        t1 == (t2 % d) * Digit + (x[3] % Digit)
        t0 == (t1 % d) * Digit
        q1 == t1 \div d
        lo == t0 \div d + (q1 % 2^13) * Digit
        hi == q1 \div 2^13 + (t2 \div d) * 2 + (t3 \div d) * 2^15
    IN  Pack(x[1] * y[1], hi, lo, t0 % d # 0, x[4] - y[4] - 54)

\* x / y for x # 0 and any y # 0: long division of the significands, by digits
\* of 14 bits, to 56 fractional bits
LongDiv(x, y) ==
    LET ge == x[2] > y[2] \/ (x[2] = y[2] /\ x[3] >= y[3])
        rl == IF ge THEN (IF x[3] >= y[3] THEN x[3] - y[3] ELSE x[3] + Limb - y[3])
              ELSE x[3]
        rh == IF ge THEN (IF x[3] >= y[3] THEN x[2] - y[2] ELSE x[2] - y[2] - 1)
              ELSE x[2]
        d == Digits(y[2], y[3])
        s1 == DivStep(Digits(rh, rl), d)
        s2 == DivStep(s1[1], d)
        s3 == DivStep(s2[1], d)
        s4 == DivStep(s3[1], d)
        lo == s4[2] + (s3[2] % 2^13) * Digit
        hi == s3[2] \div 2^13 + s2[2] * 2 + s1[2] * 2^15 + (IF ge THEN 2^29 ELSE 0)
    IN  Pack(x[1] * y[1], hi, lo, s4[1] # <<0, 0, 0, 0>>, x[4] - y[4] - 56)

\* x / y for y # 0, the exact quotient rounded
FDiv(x, y) ==
    IF x[1] = 0 THEN FZero
    ELSE IF y[3] = 0 /\ y[2] % 2^13 = 0 THEN ShortDiv(x, y)
    ELSE LongDiv(x, y)

\* |x| >= |y|, for x and y other than zero
MagGe(x, y) ==
    \/ x[4] > y[4]
    \/ x[4] = y[4] /\ x[2] > y[2]
    \/ x[4] = y[4] /\ x[2] = y[2] /\ x[3] >= y[3]

\* x + y for |x| >= |y| > 0: y is brought to x's exponent, two bits below x's last
\* place, and added to or taken from x's significand
AddOrdered(x, y) ==
    LET d == x[4] - y[4]
    IN  IF d > 55 THEN x
        ELSE
          LET ah == 4 * x[2] + x[3] \div (Limb \div 4)
              al == 4 * (x[3] % (Limb \div 4))
              yh == 4 * y[2] + y[3] \div (Limb \div 4)
              yl == 4 * (y[3] % (Limb \div 4))
              big == d >= 27
              k == IF big THEN d - 27 ELSE d
              p == 2^k
              bh == IF big THEN (yh \div p) \div Limb ELSE yh \div p
              bl == IF big THEN (yh \div p) % Limb
                    ELSE yl \div p + (yh % p) * (Limb \div p)
              sticky == IF big THEN yl # 0 \/ yh % p # 0 ELSE yl % p # 0
          IN  IF x[1] = y[1]
              THEN LET sl == al + bl
                       sh == ah + bh + sl \div Limb
                   IN  Pack(x[1], sh, sl % Limb, sticky, x[4] - 2)
              ELSE LET c == IF sticky THEN 1 ELSE 0
                       tl == al - bl - c
                       sl == IF tl < 0 THEN tl + Limb ELSE tl
                       sh == ah - bh - (IF tl < 0 THEN 1 ELSE 0)
                   IN  Pack(x[1], sh, sl, sticky, x[4] - 2)

\* x + y
FAdd(x, y) ==
    IF x[1] = 0 THEN y
    ELSE IF y[1] = 0 THEN x
    ELSE IF MagGe(x, y) THEN AddOrdered(x, y) ELSE AddOrdered(y, x)

\* -x
FNeg(x) == <<-x[1], x[2], x[3], x[4]>>

\* abs(x)
FAbs(x) == <<Abs(x[1]), x[2], x[3], x[4]>>

\* x * 2^k, which is exact
Scale(x, k) == IF x[1] = 0 THEN x ELSE <<x[1], x[2], x[3], x[4] + k>>

\* x <= y
FLe(x, y) ==
    IF x[1] # y[1] THEN x[1] < y[1]
    ELSE IF x[1] = 0 THEN TRUE
    ELSE IF x[1] = 1 THEN MagGe(y, x)
    ELSE MagGe(x, y)

\* x >= y
FGe(x, y) == FLe(y, x)

FMin(x, y) == IF FLe(x, y) THEN x ELSE y

FMax(x, y) == IF FLe(x, y) THEN y ELSE x

\* the double a decimal literal denotes, the literal being n / d with d a power
\* of ten: the double nearest to the quotient
Lit(n, d) == FDiv(FInt(n), FInt(d))

RECURSIVE FSumFrom(_, _, _)
\* the additions of sum() from the k-th element on: acc + s[k] + s[k + 1] + ...,
\* left to right, each addition rounded
FSumFrom(s, k, acc) ==
    IF k \in DOMAIN s THEN FSumFrom(s, k + 1, FAdd(acc, s[k])) ELSE acc

\* sum(s): the builtin starts from the int 0 and adds the elements in order, one
\* rounded addition each (the plain summation of CPython up to 3.11)
FSum(s) == FSumFrom(s, 1, FInt(0))

(***************************************************************************)
(* Fluid, Panel.                                                           *)
(***************************************************************************)
\* Fluid.SpecificHeatCapacity = 4.2
SpecificHeatCapacity == Lit(42, 10)

\* Panel(height=1, width=1, efficiency=0.18)
DefaultPanelSpec == <<1, 1, Lit(18, 100)>>

\* Panel.__init__
Panel(h, w, e) == [height |-> h, width |-> w, efficiency |-> e]

\* Panel.setSpec: an argument is <<>> for None, <<v>> for the value v; each
\* argument other than None replaces its attribute
setSpec(panel, height, width, efficiency) ==
    [height |-> IF height # <<>> THEN height[1] ELSE panel.height,
     width |-> IF width # <<>> THEN width[1] ELSE panel.width,
     efficiency |-> IF efficiency # <<>> THEN efficiency[1] ELSE panel.efficiency]

heatEnergy_NoSpecificHeat(Q, mass, specificHeat, temprature) ==
    FAdd(FDiv(Q, mass), temprature)

\* Panel.heatEnergy: (Q / (mass * specificHeat)) + temprature
heatEnergy(Q, mass, specificHeat, temprature) ==
    FAdd(FDiv(Q, FMul(mass, specificHeat)), temprature)

\* Panel.tempResult: Q = solarEnergy * height * width * efficiency
tempResult(panel, solarEnergy, mass, temprature) ==
    LET Q == FMul(FInt(solarEnergy * panel.height * panel.width), panel.efficiency)
    IN  heatEnergy(Q, mass, SpecificHeatCapacity, temprature)

(***************************************************************************)
(* SolarHeater.  __panels is a class attribute: one list for the process,  *)
(* which every instance reads and appends to through self.__panels.        *)
(***************************************************************************)
\* buildSolarPanels raises ValueError unless len(customSpec) is 0 or 3
buildRaises(customSpec) == Len(customSpec) # 0 /\ Len(customSpec) # 3

\* buildSolarPanels: the class list after the appends of one construction
buildSolarPanels(ps, number, customSpec) ==
    LET s == IF Len(customSpec) = 3 THEN customSpec ELSE DefaultPanelSpec
    IN  ps \o [k \in 1..number |-> Panel(s[1], s[2], s[3])]

\* changePanelAt(index, height, width, efficiency) is defined without self.
\* Called on an instance with nargs positional arguments and the keyword
\* arguments named in keywords, the instance is bound to index and the positional
\* arguments to the parameters after it: TypeError when they are more than the
\* three left, or when a keyword names a parameter already bound; otherwise the
\* body runs, and its first line reads the undefined name self: NameError
ParamPosition == [index |-> 0, height |-> 1, width |-> 2, efficiency |-> 3]

changePanelAtError(nargs, keywords) ==
    IF nargs > 3 THEN "TypeError"
    ELSE IF \E k \in keywords : ParamPosition[k] <= nargs THEN "TypeError"
    ELSE "NameError"

\* getIncidentEnergy raises ValueError exactly when the stored value is 0
getIncidentEnergyRaises(incidentEnergy) == incidentEnergy = 0

\* heatWater raises ZeroDivisionError: len(__panels) = 0 in volume / numberOfPanels,
\* or mass = 0 in heatEnergy
heatWaterRaises(ps, volume, initialTemp) ==
    /\ ~FGe(initialTemp, FInt(MAX_HEAT))
    /\ (Len(ps) = 0 \/ volume = 0)

heatWater_DividesByPanelMass(ps, incidentEnergy, volume, initialTemp) ==
    IF FGe(initialTemp, FInt(MAX_HEAT)) THEN FInt(MAX_HEAT)
    ELSE
      LET numberOfPanels == Len(ps)
          volumePerPanel == FDiv(FInt(volume), FInt(numberOfPanels))
          massPerPanel   == FMul(volumePerPanel, FInt(Density))
          tempObtainedFromPanels ==
              [k \in 1..numberOfPanels |->
                  FMul(tempResult(ps[k], incidentEnergy, massPerPanel, initialTemp),
                       massPerPanel)]
      IN  FDiv(FSum(tempObtainedFromPanels), massPerPanel)

\* SolarHeater.heatWater, for a call that does not raise
heatWater(ps, incidentEnergy, volume, initialTemp) ==
    IF FGe(initialTemp, FInt(MAX_HEAT)) THEN FInt(MAX_HEAT)
    ELSE
      LET numberOfPanels == Len(ps)
          volumePerPanel == FDiv(FInt(volume), FInt(numberOfPanels))
          massPerPanel   == FMul(volumePerPanel, FInt(Density))
          tempObtainedFromPanels ==
              [k \in 1..numberOfPanels |->
                  FMul(tempResult(ps[k], incidentEnergy, massPerPanel, initialTemp),
                       massPerPanel)]
          total_mass     == FInt(volume * Density)
      IN  FDiv(FSum(tempObtainedFromPanels), total_mass)

(***************************************************************************)
(* Tank.                                                                   *)
(***************************************************************************)
\* addWater prints its warning, and mixes all the same
capacityExceeded(cap, vol, volume) == volume > cap - vol

mixWaterTemp_VolumeFirst(vol, temp, volume, temprature) ==
    FDiv(FAdd(FMul(FInt(volume), temprature), FMul(temp, FInt(vol + volume))),
         FInt(volume + vol + volume))

\* __mixWater, the temperature:
\* ((volume * temprature) + (waterTemp * waterVol)) / (volume + waterVol)
mixWaterTemp(vol, temp, volume, temprature) ==
    FDiv(FAdd(FMul(FInt(volume), temprature), FMul(temp, FInt(vol))),
         FInt(volume + vol))

mixWaterVol_NoAdd(vol, volume) == vol

\* __mixWater, the volume: waterVol += volume
mixWaterVol(vol, volume) == vol + volume

\* __mixWater raises ZeroDivisionError when volume + waterVol = 0
mixWaterRaises(vol, volume) == volume + vol = 0

\* Tank.setWaterVol: self.waterVol = volume
setWaterVol(vol, volume) == volume

\* Pumping.setPumpingRateLitersPerSec: self.pumpingRate = rate
setPumpingRateLitersPerSec(old, rate) == rate

\* releaseWaterVolume takes its refusing branch
releaseRefused(vol, volume) == volume > vol

\* the refusing branch evaluates self.waterCap, an attribute Tank never sets,
\* as an argument of its print: AttributeError, before anything is printed
releaseAborts(vol, volume) == releaseRefused(vol, volume)

\* releaseWaterVolume, the volume after a call that does not raise:
\* unchanged on the refusing branch (return), else waterVol -= volume
releaseWaterVol(vol, volume) == IF releaseRefused(vol, volume) THEN vol ELSE vol - volume

(***************************************************************************)
(* The inputs the model draws from.                                        *)
(***************************************************************************)
\* customSpec arguments: none, a full (height, width, efficiency), a partial one
FullSpec == <<2, 1, Lit(2, 10)>>
PartialSpec == <<2, 1>>
Specs == {<<>>, FullSpec}

\* incident energies: none, the default, and one that heats 1 L by 1.8 degrees
HighEnergy == 10 * 4116
Energies == {0, DefaultEnergy, HighEnergy}

\* initial tank temperatures of the varied configurations: 0.1, which is not a
\* double exactly, and temperatures below, at and above MAX_HEAT
Temps == {Lit(1, 10), FInt(15), FInt(94), FInt(MAX_HEAT), FInt(100)}

\* incident energies of a direct setIncidentEnergy call
HeaterEnergies == {0, DefaultEnergy}

\* inlet temperatures of a direct heatWater call: below MAX_HEAT, and at it
HeaterTemps == {FInt(15), FInt(MAX_HEAT)}

\* (height, width, efficiency) arguments of a setSpec call, <<>> for None
SpecEdits == {<<<<2>>, <<>>, <<>>>>, <<<<>>, <<2>>, <<Lit(2, 10)>>>>}

\* calls of changePanelAt: the number of positional arguments, and the names of
\* the keyword arguments
ChangeArgs == 0..4
ChangeKeywords == {{}, {"index"}, {"height"}, {"index", "height", "width", "efficiency"}}

\* volumes given to setWaterVol: it checks nothing, so also a negative one and
\* ones above the capacity
SetVolumes == (0 - 1)..MaxVol

\* rates given to setPumpingRateLitersPerSec, which checks nothing either
SetRates == 0..MaxRate

\* requested hours: none, and the hour of main()
Hours == {0, MainHours}

(***************************************************************************)
(* State.                                                                  *)
(***************************************************************************)
VARIABLES
    panels,       \* SolarHeater.__panels, the class attribute
    heaters,      \* the SolarHeater instances, in construction order
    edited,       \* history: setSpec was called on a panel of the list
    capacity,     \* Tank.capacity
    waterVol,     \* Tank.waterVol
    waterTemp,    \* Tank.waterTemp
    pumpingRate,  \* Pumping.pumpingRate
    targetTemp,   \* Controller.targetTemp
    pc,           \* where the Controller's call is
    mode,         \* "seconds" or "hours": the public call made
    arg,          \* its argument
    time,         \* the argument of __simulateSystemForSeconds
    idx,          \* the next value of range(time)
    timeTaken,    \* the loop variable, and the value returned
    hoursTaken,   \* simulateSystemForHours' local
    reported,     \* the duration the call prints
    error,        \* the exception raised, or "none"
    cycles,       \* history: completed __performOneCycle calls of the run
    firstHit,     \* history: the first cycle that ended at or above targetTemp
    outcome,      \* history: how the loop ended
    vol0,         \* history: waterVol when the run's loop was entered
    temp0,        \* history: waterTemp when the run's loop was entered
    call,         \* history: the last call made directly on a component
    ncalls        \* history: the number of such calls

vars == <<panels, heaters, edited, capacity, waterVol, waterTemp, pumpingRate, targetTemp,
          pc, mode, arg, time, idx, timeTaken, hoursTaken, reported, error,
          cycles, firstHit, outcome, vol0, temp0, call, ncalls>>

tankVars == <<capacity, waterVol, waterTemp>>
heaterVars == <<panels, heaters, edited>>
loopVars == <<pc, mode, arg, time, idx, timeTaken, hoursTaken, reported,
              cycles, firstHit, outcome, vol0, temp0>>

NoCall == [op |-> "none", inst |-> 0, volume |-> 0, temp |-> FInt(0),
           prevVol |-> 0, prevTemp |-> FInt(0), result |-> "none", value |-> FInt(0)]

\* SolarHeater.__init__: the instance after buildSolarPanels; number and spec
\* record the constructor's arguments, everSet whether setIncidentEnergy was
\* called on it, direct whether buildSolarPanels was called on it again
Heater(number, customSpec) ==
    [incidentEnergy |-> UnsetEnergy, number |-> number, spec |-> customSpec,
     everSet |-> FALSE, direct |-> FALSE]

\* setIncidentEnergy on an instance record
setIncidentEnergy(h, energy) == [h EXCEPT !.incidentEnergy = energy, !.everSet = TRUE]

\* the loop's variables before any call
LoopIdle ==
    /\ pc = "ready"
    /\ mode = "none"
    /\ arg = 0
    /\ time = 0
    /\ idx = 0
    /\ timeTaken = 0
    /\ hoursTaken = FInt(0)
    /\ reported = 0
    /\ cycles = 0
    /\ firstHit = 0
    /\ outcome = "Running"

(***************************************************************************)
(* Controller: a Controller whose components hold one of the varied        *)
(* configurations, and whose components' setters may be called before the  *)
(* run.                                                                    *)
(***************************************************************************)
Init ==
    /\ \E number \in 1..MaxPanels, customSpec \in Specs, energy \in Energies :
          /\ panels = buildSolarPanels(<<>>, number, customSpec)
          /\ heaters = <<setIncidentEnergy(Heater(number, customSpec), energy)>>
    /\ edited = FALSE
    /\ capacity \in 1..MaxVol
    /\ waterVol \in 0..capacity
    /\ waterTemp \in Temps
    /\ pumpingRate \in 1..MaxRate
    /\ targetTemp = MAX_HEAT
    /\ LoopIdle
    /\ error = "none"
    /\ vol0 = waterVol
    /\ temp0 = waterTemp
    /\ call = NoCall
    /\ ncalls = 0

\* controller.tank.setWaterVol(volume), before the run
ControllerSetWaterVol ==
    \E volume \in SetVolumes :
       /\ pc = "ready"
       /\ waterVol' = setWaterVol(waterVol, volume)
       /\ UNCHANGED <<heaterVars, capacity, waterTemp, pumpingRate, targetTemp,
                      loopVars, error, call, ncalls>>

\* controller.pump.setPumpingRateLitersPerSec(rate), before the run
ControllerSetPumpingRate ==
    \E rate \in SetRates :
       /\ pc = "ready"
       /\ pumpingRate' = setPumpingRateLitersPerSec(pumpingRate, rate)
       /\ UNCHANGED <<heaterVars, tankVars, targetTemp, loopVars, error, call, ncalls>>

\* controller.heater.setIncidentEnergy(energy), before the run
ControllerSetIncidentEnergy ==
    \E energy \in Energies :
       /\ pc = "ready"
       /\ heaters' = [heaters EXCEPT ![1] = setIncidentEnergy(heaters[1], energy)]
       /\ UNCHANGED <<panels, edited, tankVars, pumpingRate, targetTemp, loopVars,
                      error, call, ncalls>>

\* __simulateSystemForSeconds(t): timeTaken = 0, and the range iterator
EnterLoop(m, a, t) ==
    /\ pc = "ready"
    /\ pc' = "loop"
    /\ mode' = m
    /\ arg' = a
    /\ time' = t
    /\ idx' = 0
    /\ timeTaken' = 0
    /\ vol0' = waterVol
    /\ temp0' = waterTemp
    /\ UNCHANGED <<heaterVars, tankVars, pumpingRate, targetTemp, hoursTaken,
                   reported, error, cycles, firstHit, outcome, call, ncalls>>

\* Controller.simulateSystemForSeconds(second), up to its loop
SimulateSystemForSeconds == \E second \in 0..MaxSeconds : EnterLoop("seconds", second, second)

\* Controller.simulateSystemForHours(hours), up to its loop
SimulateSystemForHours == \E hours \in Hours : EnterLoop("hours", hours, hours * SecondsPerHour)

\* One iteration of "for timeTaken in range(time)": __performOneCycle, that is
\* pump.drawWaterFromTank, pump.feedWaterToSolarHeater, pump.feedWaterToTank,
\* then the test of tank.waterTemp against targetTemp.
PerformOneCycle ==
    /\ pc = "loop"
    /\ idx < time
    /\ idx' = idx + 1
    /\ timeTaken' = idx
    /\ IF releaseAborts(waterVol, pumpingRate)
       THEN \* drawWaterFromTank raises; the exception leaves the loop and the call
            /\ pc' = "crashed"
            /\ error' = "AttributeError"
            /\ outcome' = "Aborted"
            /\ UNCHANGED <<waterVol, waterTemp, cycles, firstHit>>
       ELSE LET drawn == releaseWaterVol(waterVol, pumpingRate)
            IN  IF heatWaterRaises(panels, pumpingRate, waterTemp)
                       \/ mixWaterRaises(drawn, pumpingRate)
                THEN /\ pc' = "crashed"
                     /\ error' = "ZeroDivisionError"
                     /\ outcome' = "Aborted"
                     /\ waterVol' = drawn
                     /\ UNCHANGED <<waterTemp, cycles, firstHit>>
                ELSE /\ waterTemp' =
                            mixWaterTemp(drawn, waterTemp, pumpingRate,
                                         heatWater(panels, heaters[1].incidentEnergy,
                                                   pumpingRate, waterTemp))
                     /\ waterVol' = mixWaterVol(drawn, pumpingRate)
                     /\ cycles' = cycles + 1
                     /\ LET hit == FGe(waterTemp', FInt(targetTemp))
                        IN  /\ firstHit' = IF firstHit = 0 /\ hit THEN cycles + 1
                                           ELSE firstHit
                            /\ pc' = IF hit THEN "return" ELSE "loop"
                            /\ outcome' = IF hit THEN "Converged" ELSE outcome
                     /\ UNCHANGED error
    /\ UNCHANGED <<heaterVars, capacity, pumpingRate, targetTemp, mode, arg, time,
                   hoursTaken, reported, vol0, temp0, call, ncalls>>

\* range(time) is exhausted: the loop ends without a break
RangeExhausted ==
    /\ pc = "loop"
    /\ idx >= time
    /\ pc' = "return"
    /\ outcome' = "TimeExhausted"
    /\ UNCHANGED <<heaterVars, tankVars, pumpingRate, targetTemp, mode, arg, time,
                   idx, timeTaken, hoursTaken, reported, error, cycles, firstHit,
                   vol0, temp0, call, ncalls>>

\* return timeTaken, and the caller's print: simulateSystemForSeconds prints
\* timeTaken + 1 "sec"; simulateSystemForHours sets hoursTaken = timeTaken / 3600
\* and prints hours "Hours"
Report ==
    /\ pc = "return"
    /\ pc' = "done"
    /\ IF mode = "seconds"
       THEN /\ reported' = timeTaken + 1
            /\ UNCHANGED hoursTaken
       ELSE /\ hoursTaken' = FDiv(FInt(timeTaken), FInt(SecondsPerHour))
            /\ reported' = arg
    /\ UNCHANGED <<heaterVars, tankVars, pumpingRate, targetTemp, mode, arg, time,
                   idx, timeTaken, error, cycles, firstHit, outcome, vol0, temp0,
                   call, ncalls>>

Next ==
    \/ ControllerSetWaterVol
    \/ ControllerSetPumpingRate
    \/ ControllerSetIncidentEnergy
    \/ SimulateSystemForSeconds
    \/ PerformOneCycle
    \/ RangeExhausted
    \/ Report

Spec == Init /\ [][Next]_vars

(***************************************************************************)
(* The program's own configuration: Controller() in a fresh process, as    *)
(* componentFactory builds it, its heater's incident energy left at the    *)
(* default or set higher with setIncidentEnergy; then one of the two       *)
(* public calls.                                                           *)
(***************************************************************************)
InitDefault ==
    /\ panels = buildSolarPanels(<<>>, DefaultPanels, <<>>)
    /\ \E energy \in {DefaultEnergy, HighEnergy} :
          heaters = <<setIncidentEnergy(Heater(DefaultPanels, <<>>), energy)>>
    /\ edited = FALSE
    /\ capacity = DefaultCapacity
    /\ waterVol = DefaultWaterVol
    /\ waterTemp = FInt(DefaultWaterTemp)
    /\ pumpingRate = DefaultRate
    /\ targetTemp = MAX_HEAT
    /\ LoopIdle
    /\ error = "none"
    /\ vol0 = waterVol
    /\ temp0 = waterTemp
    /\ call = NoCall
    /\ ncalls = 0

NextDefault ==
    \/ SimulateSystemForSeconds
    \/ SimulateSystemForHours
    \/ PerformOneCycle
    \/ RangeExhausted
    \/ Report

SpecDefault == InitDefault /\ [][NextDefault]_vars

(***************************************************************************)
(* Tank: a Tank and a caller that makes up to MaxOps calls on it (addWater, *)
(* releaseWaterVolume, setWaterVol), going on after a call that raised.    *)
(***************************************************************************)
\* temperatures of the tank and of the water added: 0, and 0.1 and 30.5, which
\* are not doubles exactly
TankTemps == {FInt(0), Lit(1, 10), Lit(305, 10)}

InitTank ==
    /\ panels = <<>>
    /\ heaters = <<>>
    /\ edited = FALSE
    /\ capacity \in 1..MaxVol
    /\ waterVol \in 0..capacity
    /\ waterTemp \in TankTemps
    /\ pumpingRate = DefaultRate
    /\ targetTemp = MAX_HEAT
    /\ LoopIdle
    /\ error = "none"
    /\ vol0 = waterVol
    /\ temp0 = waterTemp
    /\ call = NoCall
    /\ ncalls = 0

\* Tank.addWater(volume, temprature): the warning, then __mixWater
AddWater ==
    \E volume \in 1..MaxArg, temprature \in TankTemps :
       /\ ncalls < MaxOps
       /\ ncalls' = ncalls + 1
       /\ IF mixWaterRaises(waterVol, volume)
          THEN /\ error' = "ZeroDivisionError"
               /\ call' = [NoCall EXCEPT !.op = "addWater", !.volume = volume,
                              !.temp = temprature, !.prevVol = waterVol,
                              !.prevTemp = waterTemp, !.result = "raised"]
               /\ UNCHANGED <<waterVol, waterTemp>>
          ELSE /\ error' = "none"
               /\ waterTemp' = mixWaterTemp(waterVol, waterTemp, volume, temprature)
               /\ waterVol' = mixWaterVol(waterVol, volume)
               /\ call' = [NoCall EXCEPT !.op = "addWater", !.volume = volume,
                              !.temp = temprature, !.prevVol = waterVol,
                              !.prevTemp = waterTemp,
                              !.result = IF capacityExceeded(capacity, waterVol, volume)
                                         THEN "warned" ELSE "returned",
                              !.value = waterTemp']
       /\ UNCHANGED <<heaterVars, capacity, pumpingRate, targetTemp, loopVars>>

\* Tank.setWaterVol(volume): waterVol = volume, whatever the volume
SetWaterVol ==
    \E volume \in SetVolumes :
       /\ ncalls < MaxOps
       /\ ncalls' = ncalls + 1
       /\ waterVol' = setWaterVol(waterVol, volume)
       /\ error' = "none"
       /\ call' = [NoCall EXCEPT !.op = "setWaterVol", !.volume = volume,
                      !.prevVol = waterVol, !.prevTemp = waterTemp,
                      !.result = "returned"]
       /\ UNCHANGED <<heaterVars, capacity, waterTemp, pumpingRate, targetTemp, loopVars>>

\* Tank.releaseWaterVolume(volume)
ReleaseWaterVolume ==
    \E volume \in 1..MaxArg :
       /\ ncalls < MaxOps
       /\ ncalls' = ncalls + 1
       /\ IF releaseAborts(waterVol, volume)
          THEN /\ error' = "AttributeError"
               /\ call' = [NoCall EXCEPT !.op = "releaseWaterVolume", !.volume = volume,
                              !.prevVol = waterVol, !.prevTemp = waterTemp,
                              !.result = "raised"]
               /\ UNCHANGED waterVol
          ELSE /\ error' = "none"
               /\ waterVol' = releaseWaterVol(waterVol, volume)
               /\ call' = [NoCall EXCEPT !.op = "releaseWaterVolume", !.volume = volume,
                              !.prevVol = waterVol, !.prevTemp = waterTemp,
                              !.result = "returned"]
       /\ UNCHANGED <<heaterVars, capacity, waterTemp, pumpingRate, targetTemp, loopVars>>

NextTank ==
    \/ SetWaterVol
    \/ AddWater
    \/ ReleaseWaterVolume

SpecTank == InitTank /\ [][NextTank]_vars

(***************************************************************************)
(* SolarHeater: a process that constructs up to MaxHeaters instances and   *)
(* makes up to MaxCalls calls on them.                                     *)
(***************************************************************************)
InitHeater ==
    /\ panels = <<>>
    /\ heaters = <<>>
    /\ edited = FALSE
    /\ capacity = DefaultCapacity
    /\ waterVol = DefaultWaterVol
    /\ waterTemp = FInt(DefaultWaterTemp)
    /\ pumpingRate = DefaultRate
    /\ targetTemp = MAX_HEAT
    /\ LoopIdle
    /\ error = "none"
    /\ vol0 = waterVol
    /\ temp0 = waterTemp
    /\ call = NoCall
    /\ ncalls = 0

\* SolarHeater(numberOfPanels, customSpec): buildSolarPanels, then incidentEnergy = -1
Construct ==
    \E number \in 0..MaxPanels, customSpec \in Specs \cup {PartialSpec} :
       /\ Len(heaters) < MaxHeaters
       /\ IF buildRaises(customSpec)
          THEN /\ error' = "ValueError"
               /\ call' = [NoCall EXCEPT !.op = "construct", !.result = "raised"]
               /\ UNCHANGED <<panels, heaters>>
          ELSE /\ error' = "none"
               /\ panels' = buildSolarPanels(panels, number, customSpec)
               /\ heaters' = Append(heaters, Heater(number, customSpec))
               /\ call' = [NoCall EXCEPT !.op = "construct", !.inst = Len(heaters) + 1,
                              !.result = "returned"]
       /\ UNCHANGED <<edited, tankVars, pumpingRate, targetTemp, loopVars, ncalls>>

\* buildSolarPanels(number, customSpec) called on an instance that exists: the
\* class list grows, no instance is made
BuildSolarPanels ==
    \E i \in 1..Len(heaters), number \in 1..MaxPanels, customSpec \in Specs \cup {PartialSpec} :
       /\ ncalls < MaxCalls
       /\ ncalls' = ncalls + 1
       /\ IF buildRaises(customSpec)
          THEN /\ error' = "ValueError"
               /\ call' = [NoCall EXCEPT !.op = "buildSolarPanels", !.inst = i,
                              !.result = "raised"]
               /\ UNCHANGED <<panels, heaters>>
          ELSE /\ error' = "none"
               /\ panels' = buildSolarPanels(panels, number, customSpec)
               /\ heaters' = [heaters EXCEPT ![i].direct = TRUE]
               /\ call' = [NoCall EXCEPT !.op = "buildSolarPanels", !.inst = i,
                              !.result = "returned"]
       /\ UNCHANGED <<edited, tankVars, pumpingRate, targetTemp, loopVars>>

\* changePanelAt called on an instance, with nargs positional arguments and the
\* keyword arguments named: it raises before it reads or changes anything
ChangePanelAt ==
    \E i \in 1..Len(heaters), nargs \in ChangeArgs, keywords \in ChangeKeywords :
       /\ ncalls < MaxCalls
       /\ ncalls' = ncalls + 1
       /\ error' = changePanelAtError(nargs, keywords)
       /\ call' = [NoCall EXCEPT !.op = "changePanelAt", !.inst = i, !.result = "raised"]
       /\ UNCHANGED <<heaterVars, tankVars, pumpingRate, targetTemp, loopVars>>

\* Panel.setSpec(height, width, efficiency) called on the k-th panel of the list
SetSpec ==
    \E k \in 1..Len(panels), edit \in SpecEdits :
       /\ ncalls < MaxCalls
       /\ ncalls' = ncalls + 1
       /\ panels' = [panels EXCEPT ![k] = setSpec(panels[k], edit[1], edit[2], edit[3])]
       /\ edited' = TRUE
       /\ error' = "none"
       /\ call' = [NoCall EXCEPT !.op = "setSpec", !.inst = k, !.result = "returned"]
       /\ UNCHANGED <<heaters, tankVars, pumpingRate, targetTemp, loopVars>>

\* SolarHeater.setIncidentEnergy(energy)
SetIncidentEnergy ==
    \E i \in 1..Len(heaters), energy \in HeaterEnergies :
       /\ ncalls < MaxCalls
       /\ ncalls' = ncalls + 1
       /\ heaters' = [heaters EXCEPT ![i] = setIncidentEnergy(heaters[i], energy)]
       /\ error' = "none"
       /\ call' = [NoCall EXCEPT !.op = "setIncidentEnergy", !.inst = i,
                      !.result = "returned", !.value = FInt(energy)]
       /\ UNCHANGED <<panels, edited, tankVars, pumpingRate, targetTemp, loopVars>>

\* SolarHeater.getIncidentEnergy()
GetIncidentEnergy ==
    \E i \in 1..Len(heaters) :
       /\ ncalls < MaxCalls
       /\ ncalls' = ncalls + 1
       /\ IF getIncidentEnergyRaises(heaters[i].incidentEnergy)
          THEN /\ error' = "ValueError"
               /\ call' = [NoCall EXCEPT !.op = "getIncidentEnergy", !.inst = i,
                              !.result = "raised"]
          ELSE /\ error' = "none"
               /\ call' = [NoCall EXCEPT !.op = "getIncidentEnergy", !.inst = i,
                              !.result = "returned",
                              !.value = FInt(heaters[i].incidentEnergy)]
       /\ UNCHANGED <<heaterVars, tankVars, pumpingRate, targetTemp, loopVars>>

\* SolarHeater.heatWater(volume, initialTemp)
HeatWater ==
    \E i \in 1..Len(heaters), volume \in 1..MaxArg, initialTemp \in HeaterTemps :
       /\ ncalls < MaxCalls
       /\ ncalls' = ncalls + 1
       /\ IF heatWaterRaises(panels, volume, initialTemp)
          THEN /\ error' = "ZeroDivisionError"
               /\ call' = [NoCall EXCEPT !.op = "heatWater", !.inst = i,
                              !.volume = volume, !.temp = initialTemp,
                              !.result = "raised"]
          ELSE /\ error' = "none"
               /\ call' = [NoCall EXCEPT !.op = "heatWater", !.inst = i,
                              !.volume = volume, !.temp = initialTemp,
                              !.result = "returned",
                              !.value = heatWater(panels, heaters[i].incidentEnergy,
                                                  volume, initialTemp)]
       /\ UNCHANGED <<heaterVars, tankVars, pumpingRate, targetTemp, loopVars>>

NextHeater ==
    \/ Construct
    \/ BuildSolarPanels
    \/ ChangePanelAt
    \/ SetSpec
    \/ SetIncidentEnergy
    \/ GetIncidentEnergy
    \/ HeatWater

SpecHeater == InitHeater /\ [][NextHeater]_vars

(***************************************************************************)
(* The claims.                                                             *)
(***************************************************************************)
\* the panels an instance would hold if it owned the list it built
OwnPanels(h) == buildSolarPanels(<<>>, h.number, h.spec)

\* the Controller's run has begun
Started == pc # "ready"

\* the Controller's heater has no incident energy
ZeroEnergy == heaters[1].incidentEnergy = 0

\* C1 (SpecTank): a Tank is constructed with 0 <= waterVol <= capacity, and every
\* addWater and releaseWaterVolume call made on a tank with 0 <= waterVol <=
\* capacity leaves 0 <= waterVol <= capacity, so the bounds hold after every call
\* of any sequence of the two.
C1_VolumeWithinCapacity ==
    /\ call.op = "none" => (0 <= waterVol /\ waterVol <= capacity)
    /\ (/\ call.op \in {"addWater", "releaseWaterVolume"}
        /\ 0 <= call.prevVol
        /\ call.prevVol <= capacity)
          => (0 <= waterVol /\ waterVol <= capacity)

\* the temperature C2 states for the last addWater call: (v1*t1 + v2*t2)/(v1 + v2),
\* each operation rounded to the nearest double
C2_StatedTemp ==
    FDiv(FAdd(FMul(FInt(call.volume), call.temp),
              FMul(FInt(call.prevVol), call.prevTemp)),
         FInt(call.volume + call.prevVol))

\* C2 as stated (SpecTank): addWater(v1, t1) on a tank holding v2 > 0 at t2 leaves
\* the volume v1 + v2 and the temperature (v1*t1 + v2*t2)/(v1 + v2), which lies
\* between min(t1, t2) and max(t1, t2) inclusive.
C2_MixConservesEnergy ==
    (call.op = "addWater" /\ call.prevVol > 0) =>
        /\ call.result # "raised"
        /\ waterVol = call.volume + call.prevVol
        /\ waterTemp = C2_StatedTemp
        /\ FLe(FMin(call.temp, call.prevTemp), waterTemp)
        /\ FLe(waterTemp, FMax(call.temp, call.prevTemp))

\* the rounding C2 as amended allows: 2^-50 * max(|t1|, |t2|).  The three rounded
\* steps of the mix (the products, their sum, the quotient) each err by at most
\* 2^-53 of their result, which is at most max(|t1|, |t2|) * (v1 + v2) before the
\* division and max(|t1|, |t2|) after it.
C2_Rounding == Scale(FMax(FAbs(call.temp), FAbs(call.prevTemp)), 0 - 50)

\* C2 as amended (SpecTank): addWater(v1, t1) on a tank holding v2 > 0 at t2 leaves
\* the volume v1 + v2 and the temperature (v1*t1 + v2*t2)/(v1 + v2) as evaluated
\* on doubles, which lies between min(t1, t2) and max(t1, t2) up to rounding: not
\* below min(t1, t2) - 2^-50 * max(|t1|, |t2|) and not above
\* max(t1, t2) + 2^-50 * max(|t1|, |t2|).
C2_MixConservesEnergyUpToRounding ==
    (call.op = "addWater" /\ call.prevVol > 0) =>
        /\ call.result # "raised"
        /\ waterVol = call.volume + call.prevVol
        /\ waterTemp = C2_StatedTemp
        /\ FLe(FAdd(FMin(call.temp, call.prevTemp), FNeg(C2_Rounding)), waterTemp)
        /\ FLe(waterTemp, FAdd(FMax(call.temp, call.prevTemp), C2_Rounding))

\* C2's case: water of another temperature was mixed into a tank that held
\* some, here beyond the remaining capacity
C2_Witness ==
    /\ call.op = "addWater"
    /\ call.prevVol > 0
    /\ call.temp # call.prevTemp
    /\ call.result = "warned"
    /\ waterTemp # call.temp
    /\ waterTemp # call.prevTemp

\* C3 (Spec): the loop started for n seconds always ends, after exactly min(n, k)
\* cycles, k the first cycle that ends at or above targetTemp: Converged after
\* cycle k when k <= n, TimeExhausted after n cycles otherwise; and no cycle runs
\* after one that ended at or above targetTemp.
C3_LoopRunsMinCycles ==
    /\ pc # "crashed"
    /\ firstHit # 0 => cycles = firstHit
    /\ pc \in {"return", "done"} =>
          IF firstHit # 0
          THEN cycles = firstHit /\ firstHit <= time /\ outcome = "Converged"
          ELSE cycles = time /\ outcome = "TimeExhausted"

\* C4 (SpecDefault): the elapsed time a call reports is the number of one-second
\* cycles its loop executed, for simulateSystemForSeconds(n), n >= 0, and for
\* simulateSystemForHours(h), however the loop ended.
C4_ReportedIsCyclesRun ==
    pc = "done" =>
        IF mode = "seconds" THEN reported = cycles
        ELSE reported * SecondsPerHour = cycles

\* C5 (SpecTank): releaseWaterVolume(volume) with volume > waterVol returns
\* normally and leaves the volume and the temperature as they were.
C5_RefusedReleaseReturns ==
    (call.op = "releaseWaterVolume" /\ call.volume > call.prevVol) =>
        /\ call.result = "returned"
        /\ error = "none"
        /\ waterVol = call.prevVol
        /\ waterTemp = call.prevTemp

\* C6 as stated (Spec): with incident energy 0 and a pump rate not above the
\* tank volume, cycles leave the tank temperature at its initial value, whatever
\* that value is.
C6_ZeroEnergyKeepsTemp ==
    (Started /\ ZeroEnergy /\ pumpingRate <= vol0) => waterTemp = temp0

\* the rounding C6 as amended allows after the cycles run so far, on p panels:
\* cycles * (p + 7) * 2^-53 * |temp0|.  Without energy a cycle on the temperature T
\* computes T again through at most p + 6 rounded operations (volume / p, * Density,
\* T * mass, the p - 1 additions of sum(), / total_mass, and the two products, the
\* sum and the quotient of the mix), each of which errs by at most 2^-53 of its
\* result.
C6_Rounding ==
    FMul(FInt(cycles * (Len(panels) + 7)), Scale(FAbs(temp0), 0 - 53))

\* C6 as amended (Spec): the same, for an initial tank temperature of at most
\* MAX_HEAT, and up to the rounding of the cycles' operations: after n cycles the
\* temperature is within n * (p + 7) * 2^-53 * |temp0| of temp0.
C6_ZeroEnergyKeepsTempUpToMax ==
    (Started /\ ZeroEnergy /\ pumpingRate <= vol0 /\ FLe(temp0, FInt(MAX_HEAT))) =>
        FLe(FAbs(FAdd(waterTemp, FNeg(temp0))), C6_Rounding)

\* C6's case: several cycles have run without energy, on several panels, and
\* their rounding has moved the temperature
C6_Witness ==
    /\ ZeroEnergy
    /\ pumpingRate <= vol0
    /\ FLe(temp0, FInt(MAX_HEAT))
    /\ Len(panels) > 1
    /\ cycles >= 2
    /\ pc = "done"
    /\ waterTemp # temp0

\* nothing but constructions has built or changed panels
OnlyConstructions == ~edited /\ \A i \in 1..Len(heaters) : ~heaters[i].direct

\* C7 (SpecHeater): after constructions alone, every instance has exactly the
\* numberOfPanels it was constructed with, all of its own spec, and heatWater on an
\* instance gives what its own panels give, whatever else was constructed.
C7_InstanceOwnsItsPanels ==
    OnlyConstructions =>
    /\ \A i \in 1..Len(heaters) : panels = OwnPanels(heaters[i])
    /\ (call.op = "heatWater") =>
          LET h == heaters[call.inst]
          IN  IF heatWaterRaises(OwnPanels(h), call.volume, call.temp)
              THEN call.result = "raised"
              ELSE /\ call.result = "returned"
                   /\ call.value = heatWater(OwnPanels(h), h.incidentEnergy,
                                             call.volume, call.temp)

\* C8 (SpecHeater): getIncidentEnergy fails on an instance whose energy was never
\* set, and returns v without failing after setIncidentEnergy(v), v >= 0, v = 0
\* included.
C8_UnsetDistinctFromZero ==
    (call.op = "getIncidentEnergy") =>
        LET h == heaters[call.inst]
        IN  IF h.everSet
            THEN call.result = "returned" /\ call.value = FInt(h.incidentEnergy)
            ELSE call.result = "raised"

\* the run of main(): Controller() as built, simulateSystemForHours(1), reported
C9_MainRunDone ==
    /\ pc = "done"
    /\ mode = "hours"
    /\ arg = MainHours
    /\ heaters[1].incidentEnergy = DefaultEnergy

\* C9 (SpecDefault): with the default configuration simulateSystemForHours(1)
\* runs all 3600 cycles without converging and ends within 0.05 of 18.21 degrees.
C9_DefaultHourEndsNear1821 ==
    C9_MainRunDone =>
        /\ cycles = MainHours * SecondsPerHour
        /\ outcome = "TimeExhausted"
        /\ FLe(Lit(1816, 100), waterTemp)
        /\ FLe(waterTemp, Lit(1826, 100))

\* C9's case: the hour has run, and the water is warmer than it was
C9_Witness ==
    /\ C9_MainRunDone
    /\ cycles = MainHours * SecondsPerHour
    /\ ~FLe(waterTemp, temp0)

\* C10 (Spec): a cycle returns the volume it drew, so the stored volume after
\* any number of cycles is the volume the run began with.
C10_VolumeConstant == Started => waterVol = vol0

\* C10's case: several cycles have drawn from and returned to the tank
C10_Witness ==
    /\ cycles >= 2
    /\ pc = "done"
    /\ pumpingRate > 1
    /\ waterVol = vol0

====
